---- MODULE Spec2Model ----
(***************************************************************************)
(* Ralph: the conversation-to-report service.                              *)
(*                                                                         *)
(* Two deployments of the service are modelled:                            *)
(*   "standalone"  src/src/main.py                                         *)
(*   "app"         src/app/src/main.py with src/app/pdf_utils/generator.py *)
(*                                                                         *)
(* A text (a Python str) is a sequence of tokens.  A token is a TLA+       *)
(* string standing for one character ("<", ">", " ", "\n") or for one      *)
(* indivisible run of characters (a word, a fixed message of the code).    *)
(* A JSON value is a record [t, v]: t is "str", "null" or "missing" and v  *)
(* the text of a string.                                                   *)
(***************************************************************************)
EXTENDS Integers, Sequences, FiniteSets, TLC

VARIABLES
    variant,     \* which deployment runs: "standalone" or "app"
    client,      \* the module-level LLM client handle: TRUE when configured
    environ,     \* the environment variables EMAIL_SENDER, EMAIL_PASSWORD and
                 \* EMAIL_RECEIVER: "unset", "empty" or "value"
    creds,       \* the module constants read from them are truthy
    files,       \* the temporary files that exist on disk
    nreq,        \* number of requests handled so far
    pc,          \* "idle": waiting for a request, "responded": one was answered
    req,         \* the request being answered
    resp,        \* the response returned for req
    events,      \* what the handler did for req, in order, before it returned
                 \* the response
    adapterLog,  \* the LLM adapter invocations made for req, in order
    env,         \* what the outside world did for req: the upstream results and
                 \* the outcomes of the file system, the template and SMTP
    fmtIn,       \* arguments of one call of format_conversation_to_text
    fmtOut,      \* its outcome
    parseIn,     \* the narrative text given to one call of parse
    parseOut,    \* its outcome
    now,         \* the wall clock, in whole seconds
    nameIn,      \* variant, userName and second of one PDF file name
    nameOut      \* the file name built from them

vars == <<variant, client, environ, creds, files, nreq, pc, req, resp, events,
          adapterLog, env, fmtIn, fmtOut, parseIn, parseOut, now, nameIn,
          nameOut>>

httpVars == <<variant, client, environ, creds, files, nreq, pc, req, resp, events, adapterLog,
              env, now>>
fmtVars == <<fmtIn, fmtOut>>
parseVars == <<parseIn, parseOut>>
nameVars == <<nameIn, nameOut>>

-----------------------------------------------------------------------------
(* Bounds of the model *)

MaxHistLen == 17
MaxRequests == 2

-----------------------------------------------------------------------------
(* Texts and JSON values *)

NL == "\n"
SP == " "
Whitespace == {SP, NL}

JStr(s) == [t |-> "str", v |-> s]
JNull == [t |-> "null", v |-> <<>>]
JMissing == [t |-> "missing", v |-> <<>>]

\* dict.get(key, default): the default replaces a missing key only; a key
\* that is present with the value null stays None
Get(j, default) == IF j.t = "missing" THEN JStr(default) ELSE j

Range(s) == {s[i] : i \in 1..Len(s)}

\* needle occurs in hay as a contiguous run (Python: needle in hay)
Contains(hay, needle) ==
    \E i \in 0..(Len(hay) - Len(needle)) :
        \A j \in 1..Len(needle) : hay[i + j] = needle[j]

IsPrefix(p, s) == Len(p) <= Len(s) /\ SubSeq(s, 1, Len(p)) = p

RECURSIVE LStrip(_)
LStrip(s) == IF s # <<>> /\ Head(s) \in Whitespace THEN LStrip(Tail(s)) ELSE s

RECURSIVE RStrip(_)
RStrip(s) ==
    IF s # <<>> /\ s[Len(s)] \in Whitespace THEN RStrip(SubSeq(s, 1, Len(s) - 1)) ELSE s

\* str.strip()
Strip(s) == RStrip(LStrip(s))

\* position of the first ">" at or after i that is reached from i without
\* crossing a newline ("." does not match "\n"); 0 when there is none
RECURSIVE TagEnd(_, _)
TagEnd(s, i) ==
    IF i > Len(s) THEN 0
    ELSE IF s[i] = ">" THEN i
    ELSE IF s[i] = NL THEN 0
    ELSE TagEnd(s, i + 1)

\* re.sub("<.*?>", "", s): leftmost, non-greedy, non-overlapping
RECURSIVE StripTagsFrom(_, _)
StripTagsFrom(s, i) ==
    IF i > Len(s) THEN <<>>
    ELSE IF s[i] = "<" /\ TagEnd(s, i + 1) # 0 THEN StripTagsFrom(s, TagEnd(s, i + 1) + 1)
    ELSE <<s[i]>> \o StripTagsFrom(s, i + 1)

StripTags(s) == StripTagsFrom(s, 1)

\* Python slices h[:k] and h[start:] on a list, for any integer k and start
SliceTo(h, k) ==
    LET e == IF k < 0 THEN (IF Len(h) + k < 0 THEN 0 ELSE Len(h) + k)
             ELSE (IF k > Len(h) THEN Len(h) ELSE k)
    IN SubSeq(h, 1, e)

SliceFrom(h, start) ==
    LET b == IF start < 0 THEN (IF Len(h) + start < 0 THEN 0 ELSE Len(h) + start)
             ELSE (IF start > Len(h) THEN Len(h) ELSE start)
    IN SubSeq(h, b + 1, Len(h))

\* the outcome of a Python call: a returned value or a raised exception
Return(v) == [raised |-> FALSE, exc |-> <<>>, val |-> v]
Raise(msg) == [raised |-> TRUE, exc |-> msg, val |-> <<>>]

\* str(x) inside an f-string
FStr(j) == IF j.t = "str" THEN j.v ELSE <<"None">>

-----------------------------------------------------------------------------
(* format_conversation_to_text *)

HeadKeep == 5
StandaloneMaxMessages == 15
AppDefaultMaxMessages == 20
SummaryMaxMessages == 15

Placeholder == "To start, please tell me"
BotLabel == "Ralph (AI): "
UserLabelSep == ": "

HeaderRule == "=================================================="
TrimNote(v) ==
    IF v = "standalone"
    THEN "Note: Conversation history was trimmed to focus on key interactions."
    ELSE "(Nota: Historico da conversa foi resumido para focar nos pontos chave)"
Divider(v) == IF v = "standalone" THEN "------------------------------" ELSE "---"
DefaultContent(v) == IF v = "standalone" THEN <<"(empty)">> ELSE <<"(vazio)">>
\* line ends: the standalone variant leaves a blank line after every line
LineEnd(v) == IF v = "standalone" THEN <<NL, NL>> ELSE <<NL>>

\* profile.title(): a method of str only
Title(profile) ==
    IF profile.t = "str" THEN Return(<<"title">> \o profile.v)
    ELSE Raise(<<"AttributeError: 'NoneType' object has no attribute 'title'">>)

FormatHeader(v, user_name, titled) ==
    IF v = "standalone"
    THEN <<"Real Estate Business Analysis for ">> \o FStr(user_name) \o <<NL>>
         \o <<"Profile: ">> \o titled \o <<NL>> \o <<HeaderRule, NL, NL>>
    ELSE <<"Contexto da Conversa com ">> \o FStr(user_name) \o <<" (Perfil: ">>
         \o titled \o <<")", NL>> \o <<HeaderRule, NL, NL>>

\* the head and tail windows of an over-long history
LimitHistory(chat_history, max_messages) ==
    IF Len(chat_history) > max_messages
    THEN SliceTo(chat_history, HeadKeep)
         \o SliceFrom(chat_history, -(max_messages - HeadKeep))
    ELSE chat_history

\* the body of the loop for one message: what it appends to text_log
FormatMessage(v, msg, user_name) ==
    LET sender == msg.sender
        content == Get(msg.content, DefaultContent(v))
    IN IF content.t # "str"
       THEN Raise(<<"TypeError: expected string or bytes-like object">>)
       ELSE LET clean_content == Strip(StripTags(content.v))
            IN IF clean_content = <<>> \/ Placeholder \in Range(clean_content)
               THEN Return(<<>>)
               ELSE Return(
                     (IF sender.t = "str" /\ sender.v = <<"bot">>
                        THEN <<BotLabel>> \o clean_content \o LineEnd(v)
                      ELSE IF sender.t = "str" /\ sender.v = <<"user">>
                        THEN FStr(user_name) \o <<UserLabelSep>> \o clean_content \o LineEnd(v)
                      ELSE <<>>)
                     \o <<Divider(v)>> \o LineEnd(v))

RECURSIVE FormatLoop(_, _, _, _)
FormatLoop(v, history, user_name, acc) ==
    IF history = <<>> THEN Return(acc)
    ELSE LET r == FormatMessage(v, Head(history), user_name)
         IN IF r.raised THEN r
            ELSE FormatLoop(v, Tail(history), user_name, acc \o r.val)

format_conversation_to_text(v, chat_history, user_name, profile, max_messages) ==
    LET titled == Title(profile)
    IN IF titled.raised THEN titled
       ELSE LET header == FormatHeader(v, user_name, titled.val)
                note == IF Len(chat_history) > max_messages
                        THEN <<TrimNote(v), NL, NL>> ELSE <<>>
            IN FormatLoop(v, LimitHistory(chat_history, max_messages), user_name,
                          header \o note)

-----------------------------------------------------------------------------
(* Inputs of the formatter *)

Word(i) == "w" \o ToString(i)

PlainMsg(i) ==
    [sender |-> JStr(IF i % 2 = 1 THEN <<"bot">> ELSE <<"user">>),
     content |-> JStr(<<Word(i)>>)]

MsgKinds == {"tagged", "onlytag", "blank", "empty", "placeholder", "nltag",
             "padded", "nocontent", "nullcontent", "nosender", "othersender"}

SpecialMsg(k, i) ==
    LET p == PlainMsg(i)
    IN CASE k = "tagged" ->
              [p EXCEPT !.content = JStr(<<"<", "b", ">", Word(i), "<", "/b", ">">>)]
         [] k = "onlytag" -> [p EXCEPT !.content = JStr(<<"<", "br", ">">>)]
         [] k = "blank" -> [p EXCEPT !.content = JStr(<<SP, NL>>)]
         [] k = "empty" -> [p EXCEPT !.content = JStr(<<>>)]
         [] k = "placeholder" ->
              [p EXCEPT !.content = JStr(<<Placeholder, SP, Word(i)>>)]
         [] k = "nltag" -> [p EXCEPT !.content = JStr(<<"<", NL, ">", Word(i)>>)]
         [] k = "padded" -> [p EXCEPT !.content = JStr(<<SP, Word(i), NL>>)]
         [] k = "nocontent" -> [p EXCEPT !.content = JMissing]
         [] k = "nullcontent" -> [p EXCEPT !.content = JNull]
         [] k = "nosender" -> [p EXCEPT !.sender = JMissing]
         [] k = "othersender" -> [p EXCEPT !.sender = JStr(<<"system">>)]

\* a history of n messages in which message number at (if any) is of kind k
History(n, at, k) == [i \in 1..n |-> IF i = at THEN SpecialMsg(k, i) ELSE PlainMsg(i)]

Histories ==
    {History(n, 0, "tagged") : n \in 0..MaxHistLen}
    \cup {History(n, at, k) : n \in 1..MaxHistLen, at \in 1..MaxHistLen, k \in MsgKinds}

MaxMessagesChoices ==
    {3, HeadKeep, 6, StandaloneMaxMessages, SummaryMaxMessages, AppDefaultMaxMessages}

NoFmtIn == [variant |-> "none", history |-> <<>>, user_name |-> JMissing,
            profile |-> JMissing, max_messages |-> 0]
NoFmtOut == [done |-> FALSE, raised |-> FALSE, exc |-> <<>>, val |-> <<>>]

NoEnviron == [EMAIL_SENDER |-> "unset", EMAIL_PASSWORD |-> "unset",
              EMAIL_RECEIVER |-> "unset"]

NoNameIn == [variant |-> "none", user_name |-> <<>>, ts |-> 0]
NoNameOut == [done |-> FALSE, val |-> <<>>]

FmtInit ==
    /\ fmtIn \in [variant : {"standalone", "app"},
                  history : Histories,
                  user_name : {JStr(<<"Ana">>)},
                  profile : {JStr(<<"owner">>), JNull},
                  max_messages : MaxMessagesChoices]
    /\ fmtOut = NoFmtOut
    /\ variant = "none" /\ client = FALSE
    /\ environ = NoEnviron
    /\ creds = [sender |-> FALSE, password |-> FALSE, receiver |-> FALSE]
    /\ files = {} /\ nreq = 0 /\ pc = "idle"
    /\ req = <<>> /\ resp = <<>> /\ events = <<>> /\ adapterLog = <<>>
    /\ env = <<>> /\ now = 0
    /\ parseIn = <<>> /\ parseOut = [done |-> FALSE, val |-> <<>>]
    /\ nameIn = NoNameIn /\ nameOut = NoNameOut

ApplyFormat ==
    /\ ~fmtOut.done
    /\ LET r == format_conversation_to_text(fmtIn.variant, fmtIn.history,
                       fmtIn.user_name, fmtIn.profile, fmtIn.max_messages)
       IN fmtOut' = [done |-> TRUE, raised |-> r.raised, exc |-> r.exc, val |-> r.val]
    /\ UNCHANGED <<fmtIn, httpVars, parseVars, nameVars>>

FmtNext == ApplyFormat

FmtSpec == FmtInit /\ [][FmtNext]_vars

-----------------------------------------------------------------------------
(* The upstream completion call: client.chat.completions.create(...)       *)

\* what one upstream call does: it raises (exc is str(e)), or it returns a
\* completion whose message content is a text, or None (isnone)
UpText(t) == [raised |-> FALSE, exc |-> <<>>, isnone |-> FALSE, text |-> t]
UpNone == [raised |-> FALSE, exc |-> <<>>, isnone |-> TRUE, text |-> <<>>]
UpRaise(e) == [raised |-> TRUE, exc |-> e, isnone |-> FALSE, text |-> <<>>]
NoUpstream == [raised |-> FALSE, exc |-> <<>>, isnone |-> FALSE, text |-> <<"unused">>]

ErrorMarker == "Error generating AI analysis:"
ErroColon == "Erro:"
ErroAoGerar == "Erro ao gerar"

CompletionTexts ==
    {<<"analysis">>, <<SP, "analysis", NL>>, <<SP, NL>>, <<>>,
     <<ErrorMarker, SP, "none">>, <<ErroColon, SP, "nenhum">>,
     <<"**", "bold", "**", NL, "* ", "item">>}

\* the keywords (lower case) that occur in token.lower()
TokenKeywords(tok) ==
    CASE tok = "AuthenticationError" -> {"authentication"}
      [] tok = "insufficient_quota" -> {"quota", "insufficient_quota"}
      [] tok = "Quota exceeded" -> {"quota"}
      [] tok = "Rate limit reached" -> {"limit"}
      [] tok = "Request timed out." -> {"timed out"}
      [] tok = "timeout" -> {"timeout"}
      [] OTHER -> {}

\* kw in str(e).lower()
HasKeyword(e, kw) == \E i \in 1..Len(e) : kw \in TokenKeywords(e[i])

ExceptionMessages ==
    {<<"AuthenticationError">>, <<"insufficient_quota">>, <<"Quota exceeded">>,
     <<"Rate limit reached">>, <<"Request timed out.">>, <<"timeout">>,
     <<"Connection error.">>, <<"AuthenticationError", SP, "insufficient_quota">>}

UpstreamOutcomes ==
    {UpText(t) : t \in CompletionTexts} \cup {UpNone}
    \cup {UpRaise(e) : e \in ExceptionMessages}

\* what the try block sees: response.choices[0].message.content.strip() on
\* None raises AttributeError inside the try
AsRaised(u) ==
    IF u.isnone
    THEN UpRaise(<<"'NoneType' object has no attribute 'strip'">>)
    ELSE u

ErrorKinds == {"Authentication", "QuotaExceeded", "Timeout", "Unknown"}

-----------------------------------------------------------------------------
(* The three LLM adapters.  Each yields [out, ok, calls]: the text it       *)
(* returns, whether the completion branch returned it (the flag that       *)
(* generate_summary_analysis returns beside the text), and the upstream    *)
(* calls it issued, in order.                                              *)

\* generate_deepseek_analysis, lines 185-198
ClassifyDeepseek(e) ==
    IF HasKeyword(e, "authentication") THEN "Authentication"
    ELSE IF HasKeyword(e, "quota") \/ HasKeyword(e, "limit")
            \/ HasKeyword(e, "insufficient_quota") THEN "QuotaExceeded"
    ELSE IF HasKeyword(e, "timeout") \/ HasKeyword(e, "timed out") THEN "Timeout"
    ELSE "Unknown"

DeepseekKindText(k) ==
    CASE k = "Authentication" ->
           <<"Authentication failed. Please check your DeepSeek API key configuration.">>
      [] k = "QuotaExceeded" ->
           <<"API quota exceeded or insufficient funds. Please check your DeepSeek account billing.">>
      [] k = "Timeout" ->
           <<"Request timed out. The conversation may be too long or the server is experiencing high load.">>
      [] k = "Unknown" -> <<"An unexpected error occurred.">>

DeepseekErrorMessage(k, e) ==
    <<ErrorMarker, SP>> \o DeepseekKindText(k) \o <<SP, "(">> \o e \o <<")">>

DeepseekNotConfigured ==
    <<"AI analysis could not be performed. DeepSeek API configuration missing or failed.">>
DeepseekEmpty == <<"Analysis could not be generated. Empty response received from API.">>
Signature == <<NL, NL, "---", NL, "Analysis generated by Ralph AI", NL,
               "Real Estate Business Consultant">>

\* fmt is the outcome of the format_conversation_to_text call of line 123,
\* which is made before the try block: its exception propagates
generate_deepseek_analysis(cl, fmt, u) ==
    IF ~cl
    THEN [raised |-> FALSE, exc |-> <<>>, out |-> DeepseekNotConfigured, ok |-> FALSE,
          calls |-> <<>>]
    ELSE IF fmt.raised
    THEN [raised |-> TRUE, exc |-> fmt.exc, out |-> <<>>, ok |-> FALSE, calls |-> <<>>]
    ELSE LET r == AsRaised(u)
         IN IF r.raised
            THEN [raised |-> FALSE, exc |-> <<>>,
                  out |-> DeepseekErrorMessage(ClassifyDeepseek(r.exc), r.exc),
                  ok |-> FALSE, calls |-> <<u>>]
            ELSE LET ai_analysis_text == Strip(r.text)
                 IN IF ai_analysis_text = <<>>
                    THEN [raised |-> FALSE, exc |-> <<>>, out |-> DeepseekEmpty,
                          ok |-> TRUE, calls |-> <<u>>]
                    ELSE [raised |-> FALSE, exc |-> <<>>,
                          out |-> ai_analysis_text \o Signature, ok |-> TRUE,
                          calls |-> <<u>>]

\* generate_ai_section, lines 107-116
ClassifySection(e) ==
    IF HasKeyword(e, "authentication") THEN "Authentication"
    ELSE IF HasKeyword(e, "quota") \/ HasKeyword(e, "limit")
            \/ HasKeyword(e, "insufficient_quota") THEN "QuotaExceeded"
    ELSE IF HasKeyword(e, "timeout") \/ HasKeyword(e, "timed out") THEN "Timeout"
    ELSE "Unknown"

\* a variant of KindSuffix in which a timeout gets no suffix of its own
KindSuffix_TimeoutUnmarked(k) ==
    CASE k = "Authentication" -> <<" (Falha na autenticacao da API)">>
      [] k = "QuotaExceeded" -> <<" (Quota da API excedida)">>
      [] k = "Timeout" -> <<>>
      [] k = "Unknown" -> <<>>

KindSuffix(k) ==
    CASE k = "Authentication" -> <<" (Falha na autenticacao da API)">>
      [] k = "QuotaExceeded" -> <<" (Quota da API excedida)">>
      [] k = "Timeout" -> <<" (Tempo limite da API excedido)">>
      [] k = "Unknown" -> <<>>

SectionErrorMessage(section_name, k) ==
    <<ErroAoGerar, " conteudo para '", section_name, "'. Tente novamente mais tarde.">>
    \o KindSuffix(k)

SectionNotConfigured(section_name) ==
    <<ErroColon, " Cliente DeepSeek nao configurado para gerar secao '", section_name, "'.">>

SectionKeys == <<"executive_summary", "best_tactics", "areas_to_change",
                 "automations", "next_10_months_plan">>

\* section_content.replace("**", "") then .replace("* ", "<br>&bull; ")
RECURSIVE CleanMarkdown(_)
CleanMarkdown(s) ==
    IF s = <<>> THEN <<>>
    ELSE IF Head(s) = "**" THEN CleanMarkdown(Tail(s))
    ELSE IF Head(s) = "* " THEN <<"<br>", "&bull; ">> \o CleanMarkdown(Tail(s))
    ELSE <<Head(s)>> \o CleanMarkdown(Tail(s))

generate_ai_section(cl, section_name, u) ==
    IF ~cl THEN [out |-> SectionNotConfigured(section_name), ok |-> FALSE, calls |-> <<>>]
    ELSE LET r == AsRaised(u)
         IN IF r.raised
            THEN [out |-> SectionErrorMessage(section_name, ClassifySection(r.exc)),
                  ok |-> FALSE, calls |-> <<u>>]
            ELSE [out |-> CleanMarkdown(Strip(r.text)), ok |-> TRUE, calls |-> <<u>>]

\* generate_summary_analysis, lines 249-255
ClassifySummary(e) ==
    IF HasKeyword(e, "authentication") THEN "Authentication"
    ELSE IF HasKeyword(e, "quota") THEN "QuotaExceeded"
    ELSE IF HasKeyword(e, "timeout") THEN "Timeout"
    ELSE "Unknown"

SummaryErrorMessage(k) == <<"Erro ao gerar o sumario da analise.">> \o KindSuffix(k)
SummaryNotConfigured == <<ErroColon, " Cliente DeepSeek nao configurado para gerar sumario.">>

\* a variant of generate_summary_analysis that repeats a failed upstream call
generate_summary_analysis_Retrying(cl, fmt, u) ==
    IF ~cl
    THEN [raised |-> FALSE, exc |-> <<>>, out |-> SummaryNotConfigured, ok |-> FALSE,
          calls |-> <<>>]
    ELSE IF fmt.raised
    THEN [raised |-> TRUE, exc |-> fmt.exc, out |-> <<>>, ok |-> FALSE, calls |-> <<>>]
    ELSE LET r == AsRaised(u)
         IN IF r.raised
            THEN [raised |-> FALSE, exc |-> <<>>,
                  out |-> SummaryErrorMessage(ClassifySummary(r.exc)), ok |-> FALSE,
                  calls |-> <<u, u>>]
            ELSE [raised |-> FALSE, exc |-> <<>>, out |-> Strip(r.text), ok |-> TRUE,
                  calls |-> <<u>>]

\* fmt is the outcome of the format_conversation_to_text call of line 213,
\* which is made before the try block: its exception propagates
generate_summary_analysis(cl, fmt, u) ==
    IF ~cl
    THEN [raised |-> FALSE, exc |-> <<>>, out |-> SummaryNotConfigured, ok |-> FALSE,
          calls |-> <<>>]
    ELSE IF fmt.raised
    THEN [raised |-> TRUE, exc |-> fmt.exc, out |-> <<>>, ok |-> FALSE, calls |-> <<>>]
    ELSE LET r == AsRaised(u)
         IN IF r.raised
            THEN [raised |-> FALSE, exc |-> <<>>,
                  out |-> SummaryErrorMessage(ClassifySummary(r.exc)), ok |-> FALSE,
                  calls |-> <<u>>]
            ELSE [raised |-> FALSE, exc |-> <<>>, out |-> Strip(r.text), ok |-> TRUE,
                  calls |-> <<u>>]

-----------------------------------------------------------------------------
(* Requests and responses *)

\* kind: how the body of the POST presents itself to Flask
\*   "notjson"    request.is_json is False
\*   "malformed"  declared as JSON, request.get_json() raises BadRequest
\*   "falsy"      parses to a falsy value: {}, [], null, 0, ""
\*   "nonobject"  parses to a truthy value that is no dict: [1], "x", 5
\*   "object"     parses to a dict with at least one key
Hi == <<[sender |-> JStr(<<"user">>), content |-> JStr(<<"Hi">>)]>>
NullContentHistory == <<[sender |-> JStr(<<"user">>), content |-> JNull]>>

ChatHistories ==
    {[t |-> "missing", v |-> <<>>], [t |-> "null", v |-> <<>>],
     [t |-> "list", v |-> <<>>], [t |-> "list", v |-> Hi],
     [t |-> "list", v |-> NullContentHistory]}

UserNames == {JStr(<<"Ana">>), JMissing, JNull}
Profiles == {JStr(<<"owner">>), JNull}

Bodies ==
    [kind : {"object"}, chatHistory : ChatHistories, userName : UserNames,
     profile : Profiles]
    \cup [kind : {"notjson", "malformed", "falsy", "nonobject"},
          chatHistory : {[t |-> "missing", v |-> <<>>]},
          userName : {JMissing}, profile : {JMissing}]

\* str.lower(), token by token
Lower(tok) ==
    CASE tok = "Ana" -> "ana"
      [] tok = "User" -> "user"
      [] tok = "B" -> "b"
      [] OTHER -> tok

\* the tokens spelled with letters, digits and "_" only
WordTokens == {"Ana", "User", "B", "ana", "user", "b", "_", "7"}

\* user_name.lower().replace(' ', '_') of src/src/main.py, line 246
StandaloneSafeName(user_name) ==
    [i \in 1..Len(user_name) |->
        IF Lower(user_name[i]) = SP THEN "_" ELSE Lower(user_name[i])]

\* re.sub(r'[^a-zA-Z0-9_]', '_', user_name.lower()) of generator.py, line 185
AppSafeName(user_name) ==
    [i \in 1..Len(user_name) |->
        IF Lower(user_name[i]) \in WordTokens THEN Lower(user_name[i]) ELSE "_"]

\* f"ralph_analysis_{...}_{timestamp}.pdf"; ts is datetime.now() to the second
pdf_filename(v, user_name, ts) ==
    <<"ralph_analysis_">>
    \o (IF v = "standalone" THEN StandaloneSafeName(user_name)
        ELSE AppSafeName(user_name))
    \o <<"_", ToString(ts), ".pdf">>

\* a file is known by its path: the transcript's name carries a uuid (the
\* request's number stands for it), the PDF's name is pdf_filename, built
\* in the second ts
NoFile == [kind |-> "none", id |-> 0, name |-> <<>>]
TxtFile(n) == [kind |-> "txt", id |-> n, name |-> <<>>]
PdfFile(v, user_name, ts) ==
    [kind |-> "pdf", id |-> ts, name |-> pdf_filename(v, user_name, ts)]

NoResp == [code |-> 0, ctype |-> "none", has |-> {}, error |-> <<>>,
           analysis_text |-> <<>>, status |-> "none", pdf_ready |-> FALSE,
           file |-> NoFile, llm_configured |-> FALSE, email_configured |-> FALSE]

\* jsonify({"error": msg}), code
ErrorResp(code, msg) == [NoResp EXCEPT !.code = code, !.ctype = "json",
                                       !.has = {"error"}, !.error = msg]

\* what a handler leaves behind
Outcome(r, ev, fs, log) == [resp |-> r, events |-> ev, files |-> fs, adapterLog |-> log]

BadRequestMessage == <<"400 Bad Request: Failed to decode JSON object">>
NoKeysMessage == <<"AttributeError: 'list' object has no attribute 'keys'">>
NoGetMessage == <<"AttributeError: 'list' object has no attribute 'get'">>
NoLenMessage == <<"TypeError: object of type 'NoneType' has no len()">>

EmailConfigured3(cr) == cr.sender /\ cr.password /\ cr.receiver

Calls(a) == [i \in 1..Len(a.calls) |-> "llm"]
LogEntry(fn, arg, a) ==
    [fn |-> fn, arg |-> arg, out |-> a.out, ok |-> a.ok, calls |-> a.calls]

-----------------------------------------------------------------------------
(* The standalone service: POST /analyze, src/src/main.py *)

CriticalPrefix ==
    "Sorry, a critical error occurred while processing your analysis. Please try again. If the problem persists, contact support."

\* the except branch of lines 707-716
CriticalResp(exc) ==
    [NoResp EXCEPT !.code = 500, !.ctype = "json", !.has = {"analysis_text", "status"},
                   !.analysis_text = <<CriticalPrefix, NL, NL, "Error details: ">> \o exc,
                   !.status = "error"]

Unavailable == <<"AI analysis unavailable - DeepSeek API not configured properly.">>
PdfLinkText(f) ==
    <<"We've prepared a comprehensive business analysis report for you.",
      "http://host", "/reports/">> \o f.name
GenericText ==
    <<"We've analyzed your business based on our conversation and identified several opportunities for improvement:">>

\* send_email_notification of src/src/main.py: [sent, events, files]
send_email_notification(cr, fs, attachment, smtpOk) ==
    IF ~(cr.sender /\ cr.password /\ cr.receiver)
    THEN [sent |-> FALSE, events |-> <<>>, files |-> fs]
    ELSE IF ~smtpOk
    THEN [sent |-> FALSE, events |-> <<"smtp_send", "smtp_failed">>, files |-> fs]
    ELSE IF attachment \in fs
    THEN [sent |-> TRUE, events |-> <<"smtp_send", "smtp_sent", "rm_file">>,
          files |-> fs \ {attachment}]
    ELSE [sent |-> TRUE, events |-> <<"smtp_send", "smtp_sent">>, files |-> fs]

\* a variant of AnalyzeAfterSave in which the fallback keeps the text of the
\* failed analysis
AnalyzeAfterSave_KeepsErrorText(r, cl, cr, fs, n, ts, ev, txt, fmt, u, pdfOk, smtpOk) ==
    LET a == generate_deepseek_analysis(cl, fmt, u)
        text0 == IF ~cl THEN Unavailable
                 ELSE IF a.raised THEN <<"Error generating analysis: ">> \o a.exc
                 ELSE a.out
        use_fallback == \/ ~cl
                        \/ a.raised
                        \/ a.out = <<>>
                        \/ ErrorMarker \in Range(a.out)
        log == IF cl THEN <<LogEntry("generate_deepseek_analysis", "", a)>> ELSE <<>>
        ev1 == ev \o (IF cl THEN Calls(a) ELSE <<>>)
        pdfdone == use_fallback /\ pdfOk /\ Get(r.userName, <<"User">>).t = "str"
        pdf == IF pdfdone THEN PdfFile("standalone", Get(r.userName, <<"User">>).v, ts)
               ELSE NoFile
        ev2 == ev1 \o (IF pdfdone THEN <<"write_pdf">> ELSE <<>>)
        fs2 == IF pdfdone THEN fs \cup {pdf} ELSE fs
        text == text0
        attachment == IF pdfdone THEN pdf ELSE txt
        m == send_email_notification(cr, fs2, attachment, smtpOk)
    IN Outcome([NoResp EXCEPT !.code = 200, !.ctype = "json",
                              !.has = {"analysis_text", "status", "pdf_url"},
                              !.analysis_text = text,
                              !.status = IF ErrorMarker \notin Range(text)
                                         THEN "success" ELSE "error",
                              !.file = pdf],
               ev2 \o m.events, m.files, log)

\* lines 613-705: everything after the transcript was saved
AnalyzeAfterSave(r, cl, cr, fs, n, ts, ev, txt, fmt, u, pdfOk, smtpOk) ==
    LET a == generate_deepseek_analysis(cl, fmt, u)
        text0 == IF ~cl THEN Unavailable
                 ELSE IF a.raised THEN <<"Error generating analysis: ">> \o a.exc
                 ELSE a.out
        use_fallback == \/ ~cl
                        \/ a.raised
                        \/ a.out = <<>>
                        \/ ErrorMarker \in Range(a.out)
        log == IF cl THEN <<LogEntry("generate_deepseek_analysis", "", a)>> ELSE <<>>
        ev1 == ev \o (IF cl THEN Calls(a) ELSE <<>>)
        pdfdone == use_fallback /\ pdfOk /\ Get(r.userName, <<"User">>).t = "str"
        pdf == IF pdfdone THEN PdfFile("standalone", Get(r.userName, <<"User">>).v, ts)
               ELSE NoFile
        ev2 == ev1 \o (IF pdfdone THEN <<"write_pdf">> ELSE <<>>)
        fs2 == IF pdfdone THEN fs \cup {pdf} ELSE fs
        text == IF ~use_fallback THEN text0
                ELSE IF pdfdone THEN PdfLinkText(pdf) ELSE GenericText
        attachment == IF pdfdone THEN pdf ELSE txt
        m == send_email_notification(cr, fs2, attachment, smtpOk)
    IN Outcome([NoResp EXCEPT !.code = 200, !.ctype = "json",
                              !.has = {"analysis_text", "status", "pdf_url"},
                              !.analysis_text = text,
                              !.status = IF ErrorMarker \notin Range(text)
                                         THEN "success" ELSE "error",
                              !.file = pdf],
               ev2 \o m.events, m.files, log)

\* analyze_data, lines 576-716
analyze_data(r, cl, cr, fs, n, ts, saveOk, u, pdfOk, smtpOk) ==
    IF r.kind = "notjson" THEN Outcome(ErrorResp(400, <<"Request must be JSON">>), <<>>, fs, <<>>)
    ELSE IF r.kind = "malformed" THEN Outcome(CriticalResp(BadRequestMessage), <<>>, fs, <<>>)
    ELSE IF r.kind = "falsy" THEN Outcome(ErrorResp(400, <<"No data received">>), <<>>, fs, <<>>)
    ELSE IF r.kind = "nonobject" THEN Outcome(CriticalResp(NoKeysMessage), <<>>, fs, <<>>)
    ELSE IF r.chatHistory.t = "null" THEN Outcome(CriticalResp(NoLenMessage), <<>>, fs, <<>>)
    ELSE IF r.chatHistory.v = <<>>
    THEN Outcome(ErrorResp(400, <<"Chat history is empty">>), <<>>, fs, <<>>)
    ELSE LET user_name == Get(r.userName, <<"User">>)
             profile == Get(r.profile, <<"unknown">>)
             fmt == format_conversation_to_text("standalone", r.chatHistory.v, user_name,
                                                profile, StandaloneMaxMessages)
         IN IF fmt.raised THEN Outcome(CriticalResp(fmt.exc), <<>>, fs, <<>>)
            ELSE AnalyzeAfterSave(r, cl, cr,
                                  IF saveOk THEN fs \cup {TxtFile(n)} ELSE fs,
                                  n, ts, <<"save_txt">>,
                                  IF saveOk THEN TxtFile(n) ELSE NoFile,
                                  fmt, u, pdfOk, smtpOk)

-----------------------------------------------------------------------------
(* The app: POST /analyze and POST /generate-pdf, src/app/src/main.py *)

\* a variant of Validate without the check for an empty chat history
Validate_AcceptsEmptyHistory(r, unexpected) ==
    IF r.kind = "notjson" THEN ErrorResp(400, <<"Request must be JSON">>)
    ELSE IF r.kind = "malformed" THEN unexpected
    ELSE IF r.kind = "falsy" THEN ErrorResp(400, <<"No data received">>)
    ELSE IF r.kind = "nonobject" THEN unexpected
    ELSE NoResp

\* the validation both handlers start with: a response, or code 0 to go on
Validate(r, unexpected) ==
    IF r.kind = "notjson" THEN ErrorResp(400, <<"Request must be JSON">>)
    ELSE IF r.kind = "malformed" THEN unexpected
    ELSE IF r.kind = "falsy" THEN ErrorResp(400, <<"No data received">>)
    ELSE IF r.kind = "nonobject" THEN unexpected
    ELSE IF r.chatHistory.t # "list" \/ r.chatHistory.v = <<>>
    THEN ErrorResp(400, <<"Chat history is empty">>)
    ELSE NoResp

\* a variant of SummaryInternalResp that announces a PDF
SummaryInternalResp_PdfReady(exc) ==
    [NoResp EXCEPT !.code = 500, !.ctype = "json",
                   !.has = {"analysis_text", "status", "pdf_ready"},
                   !.analysis_text = <<"Erro interno ao processar o sumario: ">> \o exc,
                   !.status = "error", !.pdf_ready = TRUE]

\* the except branch of lines 95-103
SummaryInternalResp(exc) ==
    [NoResp EXCEPT !.code = 500, !.ctype = "json",
                   !.has = {"analysis_text", "status", "pdf_ready"},
                   !.analysis_text = <<"Erro interno ao processar o sumario: ">> \o exc,
                   !.status = "error", !.pdf_ready = FALSE]

\* analyze_chat, lines 65-103
analyze_chat(r, cl, fs, u) ==
    LET v == Validate(r, SummaryInternalResp(IF r.kind = "malformed"
                                             THEN BadRequestMessage ELSE NoGetMessage))
    IN IF v.code # 0 THEN Outcome(v, <<>>, fs, <<>>)
       ELSE LET user_name == Get(r.userName, <<"User">>)
                profile == Get(r.profile, <<"unknown">>)
                fmt == format_conversation_to_text("app", r.chatHistory.v, user_name,
                                                   profile, SummaryMaxMessages)
                a == generate_summary_analysis(cl, fmt, u)
            IN IF a.raised THEN Outcome(SummaryInternalResp(a.exc), <<>>, fs, <<>>)
               ELSE Outcome([NoResp EXCEPT !.code = 200, !.ctype = "json",
                                           !.has = {"analysis_text", "status", "pdf_ready"},
                                           !.analysis_text = a.out,
                                           !.status = IF a.ok THEN "success" ELSE "error",
                                           !.pdf_ready = a.ok],
                            Calls(a), fs,
                            <<LogEntry("generate_summary_analysis", "", a)>>)

\* send_email_notification of src/app/src/main.py: [sent, events]
app_send_email_notification(cr, smtpOk) ==
    IF ~(cr.sender /\ cr.password) THEN [sent |-> FALSE, events |-> <<>>]
    ELSE IF ~smtpOk THEN [sent |-> FALSE, events |-> <<"smtp_send", "smtp_failed">>]
    ELSE [sent |-> TRUE, events |-> <<"smtp_send", "smtp_sent">>]

\* a variant of SectionResults that leaves the loop at the first section that
\* failed
SectionResults_StopsAtFailure(cl, us) ==
    LET all == [i \in 1..Len(SectionKeys) |-> generate_ai_section(cl, SectionKeys[i], us[i])]
        bad == {i \in 1..Len(all) : ~all[i].ok}
    IN IF bad = {} THEN all
       ELSE SubSeq(all, 1, CHOOSE i \in bad : \A j \in bad : i <= j)

\* the loop of lines 142-150: one adapter invocation for each section key
SectionResults(cl, us) == [i \in 1..Len(SectionKeys) |-> generate_ai_section(cl, SectionKeys[i], us[i])]

SectionFlagged(content) ==
    ErroColon \in Range(content) \/ ErroAoGerar \in Range(content)

RECURSIVE Flatten(_)
Flatten(ss) == IF ss = <<>> THEN <<>> ELSE Head(ss) \o Flatten(Tail(ss))

\* generate_pdf_report_weasyprint, lines 119-205: [path, events, files, adapterLog];
\* path is NoFile where the function returns (None, None)
generate_pdf_report_weasyprint(r, cl, fs, ts, us, templateOk, writeOk) ==
    LET user_name == Get(r.userName, <<"User">>)
        profile == Get(r.profile, <<"unknown">>)
        fmt == format_conversation_to_text("app", r.chatHistory.v, user_name, profile,
                                           AppDefaultMaxMessages)
        secs == SectionResults(cl, us)
        log == [i \in 1..Len(secs) |-> LogEntry("generate_ai_section", SectionKeys[i], secs[i])]
        ev == Flatten([i \in 1..Len(secs) |-> Calls(secs[i])])
        has_error == \E i \in 1..Len(secs) : SectionFlagged(secs[i].out)
    IN IF fmt.raised THEN [path |-> NoFile, events |-> <<>>, files |-> fs, adapterLog |-> <<>>]
       ELSE IF has_error \/ ~templateOk \/ user_name.t # "str"
       THEN [path |-> NoFile, events |-> ev, files |-> fs, adapterLog |-> log]
       ELSE IF ~writeOk
       THEN [path |-> NoFile, events |-> ev \o <<"write_pdf">>, files |-> fs,
             adapterLog |-> log]
       ELSE [path |-> PdfFile("app", user_name.v, ts), events |-> ev \o <<"write_pdf">>,
             files |-> fs \cup {PdfFile("app", user_name.v, ts)}, adapterLog |-> log]

\* a variant of PdfFailedResp that leaves out the status code, so that Flask
\* answers 200
PdfFailedResp_DefaultStatus ==
    ErrorResp(200, <<"Falha interna ao gerar o relatorio PDF. Verifique os logs do servidor.">>)

PdfFailedResp ==
    ErrorResp(500, <<"Falha interna ao gerar o relatorio PDF. Verifique os logs do servidor.">>)
PdfUnexpectedResp(exc) ==
    ErrorResp(500, <<"Erro inesperado no servidor durante a geracao do PDF: ">> \o exc)

\* a variant of generate_pdf in which a failed mail fails the request
generate_pdf_FailsWithEmail(r, cl, cr, fs, ts, us, templateOk, writeOk, smtpOk) ==
    LET v == Validate(r, PdfUnexpectedResp(IF r.kind = "malformed"
                                           THEN BadRequestMessage ELSE NoGetMessage))
    IN IF v.code # 0 THEN Outcome(v, <<>>, fs, <<>>)
       ELSE LET g == generate_pdf_report_weasyprint(r, cl, fs, ts, us, templateOk, writeOk)
                m == IF EmailConfigured3(cr) THEN app_send_email_notification(cr, smtpOk)
                     ELSE [sent |-> FALSE, events |-> <<>>]
            IN IF g.path = NoFile THEN Outcome(PdfFailedResp, g.events, g.files, g.adapterLog)
               ELSE IF EmailConfigured3(cr) /\ ~m.sent
               THEN Outcome(PdfUnexpectedResp(<<"SMTPException">>), g.events \o m.events,
                            g.files, g.adapterLog)
               ELSE Outcome([NoResp EXCEPT !.code = 200, !.ctype = "application/pdf",
                                           !.has = {"attachment"}, !.file = g.path],
                            g.events \o m.events \o <<"send_file">>, g.files,
                            g.adapterLog)

\* generate_pdf, lines 105-171
generate_pdf(r, cl, cr, fs, ts, us, templateOk, writeOk, smtpOk) ==
    LET v == Validate(r, PdfUnexpectedResp(IF r.kind = "malformed"
                                           THEN BadRequestMessage ELSE NoGetMessage))
    IN IF v.code # 0 THEN Outcome(v, <<>>, fs, <<>>)
       ELSE LET g == generate_pdf_report_weasyprint(r, cl, fs, ts, us, templateOk, writeOk)
                m == IF EmailConfigured3(cr) THEN app_send_email_notification(cr, smtpOk)
                     ELSE [sent |-> FALSE, events |-> <<>>]
            IN IF g.path = NoFile THEN Outcome(PdfFailedResp, g.events, g.files, g.adapterLog)
               ELSE Outcome([NoResp EXCEPT !.code = 200, !.ctype = "application/pdf",
                                           !.has = {"attachment"}, !.file = g.path],
                            g.events \o m.events \o <<"send_file">>, g.files,
                            g.adapterLog)

\* health_check of src/src/main.py, lines 718-725, and of
\* src/app/src/main.py, lines 173-184
health_check(v, cl, cr) ==
    [NoResp EXCEPT !.code = 200, !.ctype = "json",
                   !.has = {"status",
                            IF v = "standalone" THEN "openai_configured"
                            ELSE "deepseek_configured",
                            "email_configured"},
                   !.status = "healthy",
                   !.llm_configured = cl,
                   !.email_configured = IF v = "standalone" THEN cr.sender /\ cr.password
                                        ELSE cr.sender /\ cr.password /\ cr.receiver]

-----------------------------------------------------------------------------
(* The service as a state machine *)

NormalRun == [i \in 1..Len(SectionKeys) |-> UpText(<<"analysis">>)]

SectionDeviations ==
    {UpRaise(<<"insufficient_quota">>), UpRaise(<<"Connection error.">>), UpNone,
     UpText(<<ErroColon, SP, "nenhum">>), UpText(<<"**", "bold", "**", NL, "* ", "item">>),
     UpText(<<SP, NL>>)}

\* the upstream outcomes of the five section calls: at most one is not the
\* plain completion
SectionRuns ==
    {NormalRun} \cup {[NormalRun EXCEPT ![i] = d] : i \in 1..Len(SectionKeys),
                                                     d \in SectionDeviations}

\* the outside world's part in one request: up is the sequence of upstream
\* results, the flags tell whether the transcript could be saved, the
\* fallback PDF built, the template read, the PDF written, the mail sent
Env(up, saveOk, pdfOk, templateOk, writeOk, smtpOk) ==
    [up |-> up, saveOk |-> saveOk, pdfOk |-> pdfOk, templateOk |-> templateOk,
     writeOk |-> writeOk, smtpOk |-> smtpOk]

NoEnv == Env(<<>>, TRUE, TRUE, TRUE, TRUE, TRUE)

\* an environment variable is absent, set to the empty string, or set to a
\* value
Settings == {"unset", "empty", "value"}
Environs ==
    [EMAIL_SENDER : Settings, EMAIL_PASSWORD : Settings, EMAIL_RECEIVER : Settings]

\* os.getenv(name) and os.getenv(name, default), read as a truth value:
\* None and "" are falsy
getenv(setting, default) == IF setting = "unset" THEN default ELSE setting
Truthy(x) == x = "value"

\* a variant of LoadCreds in which no variable has a default
LoadCreds_NoDefaults(v, e) ==
    [sender |-> Truthy(getenv(e.EMAIL_SENDER, "unset")),
     password |-> Truthy(getenv(e.EMAIL_PASSWORD, "unset")),
     receiver |-> Truthy(getenv(e.EMAIL_RECEIVER, "unset"))]

\* EMAIL_SENDER, EMAIL_PASSWORD, EMAIL_RECEIVER of src/src/main.py, lines
\* 41-43, and of src/app/src/main.py, lines 17-19
LoadCreds(v, e) ==
    [sender |-> Truthy(getenv(e.EMAIL_SENDER, IF v = "app" THEN "value" ELSE "unset")),
     password |-> Truthy(getenv(e.EMAIL_PASSWORD, "unset")),
     receiver |-> Truthy(getenv(e.EMAIL_RECEIVER, "value"))]

\* the state after the module was loaded with one of the environments es
InitWith(es) ==
    /\ variant \in {"standalone", "app"}
    /\ client \in BOOLEAN
    /\ environ \in es
    /\ creds = LoadCreds(variant, environ)
    /\ files = {}
    /\ nreq = 0
    /\ pc = "idle"
    /\ req = <<>>
    /\ resp = NoResp
    /\ events = <<>>
    /\ adapterLog = <<>>
    /\ env = NoEnv
    /\ fmtIn = NoFmtIn
    /\ fmtOut = NoFmtOut
    /\ parseIn = <<>>
    /\ parseOut = [done |-> FALSE, val |-> <<>>]
    /\ now = 0
    /\ nameIn = NoNameIn
    /\ nameOut = NoNameOut

\* an unset variable behaves as one set to its default: the service starts
\* with every variable set, to a value or to the empty string
SetEnvirons == {e \in Environs : \A k \in DOMAIN e : e[k] # "unset"}

Init == InitWith(SetEnvirons)

\* a variant of Handled in which a request whose upstream call raised drops
\* the client handle
Handled_DropsClient(endpoint, body, e, o) ==
    /\ pc' = "responded"
    /\ env' = e
    /\ nreq' = nreq + 1
    /\ req' = [endpoint |-> endpoint, body |-> body]
    /\ resp' = o.resp
    /\ events' = o.events
    /\ files' = o.files
    /\ adapterLog' = o.adapterLog
    /\ client' = (client /\ \A i \in 1..Len(o.adapterLog) :
                               \A j \in 1..Len(o.adapterLog[i].calls) :
                                  ~o.adapterLog[i].calls[j].raised)
    /\ UNCHANGED <<variant, environ, creds, now, fmtVars, parseVars, nameVars>>

Handled(endpoint, body, e, o) ==
    /\ pc' = "responded"
    /\ env' = e
    /\ nreq' = nreq + 1
    /\ req' = [endpoint |-> endpoint, body |-> body]
    /\ resp' = o.resp
    /\ events' = o.events
    /\ files' = o.files
    /\ adapterLog' = o.adapterLog
    /\ UNCHANGED <<variant, client, environ, creds, now, fmtVars, parseVars, nameVars>>

\* the choices of the environment that a handler can observe
Upstreams(body) ==
    IF client /\ body.kind = "object" /\ body.chatHistory.t = "list"
       /\ body.chatHistory.v # <<>>
    THEN UpstreamOutcomes ELSE {NoUpstream}

\* a request that is rejected before any file or mail is touched sees none
\* of the outcomes of the file system and of SMTP
Outcomes(body) ==
    IF body.kind = "object" /\ body.chatHistory.t = "list" /\ body.chatHistory.v # <<>>
    THEN BOOLEAN ELSE {TRUE}

\* SMTP is reached only with the sender's address and password (both
\* send_email_notification functions return before it otherwise)
SmtpOutcomes(body, cr) == IF cr.sender /\ cr.password THEN Outcomes(body) ELSE {TRUE}

\* POST /analyze of the standalone service
AnalyzeData ==
    /\ variant = "standalone" /\ pc = "idle" /\ nreq < MaxRequests
    /\ \E body \in Bodies :
         \E u \in Upstreams(body), saveOk, pdfOk \in Outcomes(body),
            smtpOk \in SmtpOutcomes(body, creds) :
            Handled("/analyze", body, Env(<<u>>, saveOk, pdfOk, TRUE, TRUE, smtpOk),
                    analyze_data(body, client, creds, files, nreq + 1, now, saveOk, u, pdfOk,
                                 smtpOk))

\* POST /analyze of the app
AnalyzeChat ==
    /\ variant = "app" /\ pc = "idle" /\ nreq < MaxRequests
    /\ \E body \in Bodies :
         \E u \in Upstreams(body) :
            Handled("/analyze", body, Env(<<u>>, TRUE, TRUE, TRUE, TRUE, TRUE),
                    analyze_chat(body, client, files, u))

\* POST /generate-pdf of the app
GeneratePdf ==
    /\ variant = "app" /\ pc = "idle" /\ nreq < MaxRequests
    /\ \E body \in Bodies :
         \E us \in (IF Upstreams(body) = {NoUpstream} THEN {NormalRun} ELSE SectionRuns),
            templateOk \in Outcomes(body), smtpOk \in SmtpOutcomes(body, creds) :
            \* the PDF is written only after the template was read
            \E writeOk \in (IF templateOk THEN Outcomes(body) ELSE {TRUE}) :
            Handled("/generate-pdf", body, Env(us, TRUE, TRUE, templateOk, writeOk, smtpOk),
                    generate_pdf(body, client, creds, files, now, us, templateOk,
                                 writeOk, smtpOk))

\* a body-less GET request
NoBody == [kind |-> "none", chatHistory |-> [t |-> "missing", v |-> <<>>],
           userName |-> JMissing, profile |-> JMissing]

\* GET /health of either service
Health ==
    /\ pc = "idle" /\ nreq < MaxRequests
    /\ Handled("/health", NoBody, NoEnv,
               Outcome(health_check(variant, client, creds), <<>>, files, <<>>))

\* the response has been sent; the server waits for the next request, which
\* arrives within the same clock second or in a later one.  The clock is
\* read for the names of PDF files only, so a new second is told from the
\* old one only where a PDF that bears the current second exists
NextRequest ==
    /\ pc = "responded"
    /\ pc' = "idle"
    /\ req' = <<>>
    /\ resp' = NoResp
    /\ events' = <<>>
    /\ adapterLog' = <<>>
    /\ env' = NoEnv
    /\ now' \in {now} \cup {now + 1 : f \in {g \in files : g.kind = "pdf" /\ g.id = now}}
    /\ UNCHANGED <<variant, client, environ, creds, files, nreq, fmtVars, parseVars,
                   nameVars>>

Next == AnalyzeData \/ AnalyzeChat \/ GeneratePdf \/ Health \/ NextRequest

Spec == Init /\ [][Next]_vars

\* the service loaded with any environment, unset variables included, and
\* asked for its health
ConfigInit == InitWith(Environs)

ConfigNext == Health

ConfigSpec == ConfigInit /\ [][ConfigNext]_vars

-----------------------------------------------------------------------------
(* The section parser: parse(narrativeText) -> NarrativeSections.  Its code *)
(* is not among the source files; it is modelled from section 4.4 of the   *)
(* specification.  NarrativeSections is a sequence of [title, body] in     *)
(* insertion order; a body is a text.                                       *)

MaxNarrativeLines == 3

\* the expected report headings, lower case
CanonicalHeadings == {"executive summary", "strengths", "improvement areas",
                      "recommendations", "automation", "roi"}

\* token.lower() for the tokens that spell a heading
LowerOf(tok) ==
    CASE tok = "EXECUTIVE SUMMARY" -> "executive summary"
      [] tok = "Executive Summary" -> "executive summary"
      [] tok = "Strengths" -> "strengths"
      [] tok = "RECOMMENDATIONS" -> "recommendations"
      [] tok = "ROI" -> "roi"
      [] OTHER -> tok

\* the numbering that may precede a heading: "1.", "2.", ...
NumberingTokens == {"1.", "2.", "3."}

\* text.split("\n")
RECURSIVE SplitLinesFrom(_, _)
SplitLinesFrom(text, cur) ==
    IF text = <<>> THEN <<cur>>
    ELSE IF Head(text) = NL THEN <<cur>> \o SplitLinesFrom(Tail(text), <<>>)
    ELSE SplitLinesFrom(Tail(text), cur \o <<Head(text)>>)

SplitLines(text) == SplitLinesFrom(text, <<>>)

\* "\n".join(lines)
RECURSIVE JoinLines(_)
JoinLines(lines) ==
    IF lines = <<>> THEN <<>>
    ELSE IF Len(lines) = 1 THEN lines[1]
    ELSE lines[1] \o <<NL>> \o JoinLines(Tail(lines))

\* the line with surrounding blanks and a leading numbering removed
CleanHeading(line) ==
    LET l == Strip(line)
    IN IF l # <<>> /\ Head(l) \in NumberingTokens THEN LStrip(Tail(l)) ELSE l

\* a line matches a heading pattern, numbered or bare, in any case
IsHeading(line) ==
    LET h == CleanHeading(line)
    IN Len(h) = 1 /\ LowerOf(h[1]) \in CanonicalHeadings

\* flush: put the accumulated body under the title; a title that is already
\* in the mapping keeps its place and gets the new body
Flush(sections, title, buf) ==
    IF \E i \in 1..Len(sections) : sections[i].title = title
    THEN [i \in 1..Len(sections) |->
             IF sections[i].title = title
             THEN [title |-> title, body |-> JoinLines(buf)] ELSE sections[i]]
    ELSE Append(sections, [title |-> title, body |-> JoinLines(buf)])

\* the scan of the lines: open is whether a section is open, title its key,
\* buf the lines of its body so far
RECURSIVE ScanLines(_, _, _, _, _)
ScanLines(lines, sections, open, title, buf) ==
    IF lines = <<>> THEN (IF open THEN Flush(sections, title, buf) ELSE sections)
    ELSE IF IsHeading(Head(lines))
    THEN ScanLines(Tail(lines), IF open THEN Flush(sections, title, buf) ELSE sections,
                   TRUE, CleanHeading(Head(lines))[1], <<>>)
    ELSE IF open THEN ScanLines(Tail(lines), sections, TRUE, title, Append(buf, Head(lines)))
    ELSE ScanLines(Tail(lines), sections, FALSE, title, buf)

FallbackTitle == "Business Analysis"

\* a variant of parse without the fallback section
parse_WithoutFallback(narrativeText) ==
    ScanLines(SplitLines(narrativeText), <<>>, FALSE, "", <<>>)

parse(narrativeText) ==
    LET sections == ScanLines(SplitLines(narrativeText), <<>>, FALSE, "", <<>>)
    IN IF sections = <<>>
       THEN <<[title |-> FallbackTitle, body |-> narrativeText]>>
       ELSE sections

\* the lines that narratives are made of
NarrativeLines ==
    {<<"1.", SP, "EXECUTIVE SUMMARY">>, <<"Strengths">>, <<SP, "ROI", SP>>,
     <<"Here is the analysis.">>, <<"body", SP, "text">>, <<>>,
     <<"Strengths", SP, "are many">>, <<"1.", SP, "first point">>}

RECURSIVE NarrativesOf(_)
NarrativesOf(n) ==
    IF n = 0 THEN {<<>>}
    ELSE {<<l>> \o rest : l \in NarrativeLines, rest \in NarrativesOf(n - 1)}

Narratives == UNION {{JoinLines(ls) : ls \in NarrativesOf(n)} : n \in 0..MaxNarrativeLines}

NoParseOut == [done |-> FALSE, val |-> <<>>]

ParseInit ==
    /\ parseIn \in Narratives
    /\ parseOut = NoParseOut
    /\ fmtIn = NoFmtIn /\ fmtOut = NoFmtOut
    /\ variant = "none" /\ client = FALSE
    /\ environ = NoEnviron
    /\ creds = [sender |-> FALSE, password |-> FALSE, receiver |-> FALSE]
    /\ files = {} /\ nreq = 0 /\ pc = "idle"
    /\ req = <<>> /\ resp = <<>> /\ events = <<>> /\ adapterLog = <<>>
    /\ env = <<>> /\ now = 0
    /\ nameIn = NoNameIn /\ nameOut = NoNameOut

ApplyParse ==
    /\ ~parseOut.done
    /\ parseOut' = [done |-> TRUE, val |-> parse(parseIn)]
    /\ UNCHANGED <<parseIn, fmtVars, httpVars, nameVars>>

ParseNext == ApplyParse

ParseSpec == ParseInit /\ [][ParseNext]_vars

-----------------------------------------------------------------------------
(* The name of a PDF file, built from one userName: src/src/main.py, lines  *)
(* 245-247, and src/app/pdf_utils/generator.py, lines 184-187.  A userName  *)
(* is a text of words and single characters.                                *)

MaxNameLen == 4

NameTokens == {"Ana", SP, "/", "."}

RECURSIVE TextsUpTo(_, _)
TextsUpTo(toks, n) ==
    IF n = 0 THEN {<<>>}
    ELSE LET shorter == TextsUpTo(toks, n - 1)
         IN shorter \cup {Append(t, c) : t \in shorter, c \in toks}

UserNameTexts == TextsUpTo(NameTokens, MaxNameLen)

\* os.path.join(PDF_FOLDER, pdf_filename): the file name never starts with a
\* separator, so the folder is kept
pdf_path(v, user_name, ts) == <<"pdf_folder", "/">> \o pdf_filename(v, user_name, ts)

NameInit ==
    /\ nameIn \in [variant : {"standalone", "app"}, user_name : UserNameTexts, ts : {0}]
    /\ nameOut = NoNameOut
    /\ fmtIn = NoFmtIn /\ fmtOut = NoFmtOut
    /\ parseIn = <<>> /\ parseOut = NoParseOut
    /\ variant = "none" /\ client = FALSE
    /\ environ = NoEnviron
    /\ creds = [sender |-> FALSE, password |-> FALSE, receiver |-> FALSE]
    /\ files = {} /\ nreq = 0 /\ pc = "idle"
    /\ req = <<>> /\ resp = <<>> /\ events = <<>> /\ adapterLog = <<>>
    /\ env = <<>> /\ now = 0

ApplyName ==
    /\ ~nameOut.done
    /\ nameOut' = [done |-> TRUE,
                   val |-> pdf_path(nameIn.variant, nameIn.user_name, nameIn.ts)]
    /\ UNCHANGED <<nameIn, fmtVars, parseVars, httpVars>>

NameNext == ApplyName

NameSpec == NameInit /\ [][NameNext]_vars

-----------------------------------------------------------------------------
(* Reading a transcript back: the message lines between the dividers *)

\* the transcript after its header and, if present, the trim notice
TranscriptBody(v, out) ==
    LET at == CHOOSE i \in 1..Len(out) : out[i] = HeaderRule /\ \A j \in 1..(i - 1) : out[j] # HeaderRule
        body == SubSeq(out, at + 3, Len(out))
    IN IF body # <<>> /\ Head(body) = TrimNote(v) THEN SubSeq(body, 4, Len(body)) ELSE body

\* the runs of tokens that end at a divider
RECURSIVE Blocks(_, _, _)
Blocks(v, s, cur) ==
    IF s = <<>> THEN <<>>
    ELSE IF Head(s) = Divider(v)
    THEN <<cur>> \o Blocks(v, SubSeq(s, 2 + Len(LineEnd(v)), Len(s)), <<>>)
    ELSE Blocks(v, Tail(s), cur \o <<Head(s)>>)

\* a block as <<role, content>>; role "none" when the block has no label
Entry(v, block, user_name) ==
    LET body == SubSeq(block, 1, Len(block) - Len(LineEnd(v)))
        ulabel == FStr(user_name) \o <<UserLabelSep>>
    IN IF block # <<>> /\ Head(block) = BotLabel THEN <<"bot", Tail(body)>>
       ELSE IF block # <<>> /\ IsPrefix(ulabel, body)
       THEN <<"user", SubSeq(body, Len(ulabel) + 1, Len(body))>>
       ELSE <<"none", block>>

SelectLabelled(es) == SelectSeq(es, LAMBDA e : e[1] # "none")

\* the labelled message lines of a transcript, in order
MessageLines(v, out, user_name) ==
    LET bs == Blocks(v, TranscriptBody(v, out), <<>>)
    IN SelectLabelled([i \in 1..Len(bs) |-> Entry(v, bs[i], user_name)])

HasTrimNotice(v, out) == TrimNote(v) \in Range(out)

\* a message qualifies when its content, tags stripped, is non-empty and is
\* not the onboarding placeholder
CleanOf(v, msg) == Strip(StripTags(Get(msg.content, DefaultContent(v)).v))
Qualifies(v, msg) ==
    /\ Get(msg.content, DefaultContent(v)).t = "str"
    /\ CleanOf(v, msg) # <<>>
    /\ Placeholder \notin Range(CleanOf(v, msg))

SenderOf(msg) == IF msg.sender.t = "str" THEN msg.sender.v[1] ELSE "None"

\* the qualifying messages of h as <<sender, content>>, in order
QualifyingLines(v, h) ==
    LET q == SelectSeq(h, LAMBDA m : Qualifies(v, m))
    IN [i \in 1..Len(q) |-> <<SenderOf(q[i]), CleanOf(v, q[i])>>]

FirstN(h, k) == SubSeq(h, 1, IF k > Len(h) THEN Len(h) ELSE k)
LastN(h, k) == IF k <= 0 THEN <<>> ELSE SubSeq(h, (IF k > Len(h) THEN 1 ELSE Len(h) - k + 1), Len(h))

Formatted == fmtOut.done /\ ~fmtOut.raised

-----------------------------------------------------------------------------
(* Claims about format_conversation_to_text, checked under FmtSpec *)

\* C5: for every history with len(history) <= maxMessages the output holds
\* every message whose tag-stripped content is non-empty and is not the
\* placeholder exactly once, in the original order, and no trim notice
C5_ShortHistoryRenderedInFull ==
    (Formatted /\ Len(fmtIn.history) <= fmtIn.max_messages) =>
        /\ MessageLines(fmtIn.variant, fmtOut.val, fmtIn.user_name)
             = QualifyingLines(fmtIn.variant, fmtIn.history)
        /\ ~HasTrimNotice(fmtIn.variant, fmtOut.val)

\* C6: for every history with len(history) > maxMessages the output holds
\* exactly the qualifying messages among the first 5 and the last
\* (maxMessages-5) messages, each once and in the original order, and the
\* trim notice
C6_LongHistoryTrimmedToWindows ==
    (Formatted /\ Len(fmtIn.history) > fmtIn.max_messages) =>
        /\ MessageLines(fmtIn.variant, fmtOut.val, fmtIn.user_name)
             = QualifyingLines(fmtIn.variant, FirstN(fmtIn.history, HeadKeep))
               \o QualifyingLines(fmtIn.variant,
                                  LastN(fmtIn.history, fmtIn.max_messages - HeadKeep))
        /\ HasTrimNotice(fmtIn.variant, fmtOut.val)

\* C7: format_conversation_to_text never raises: for every history, userName,
\* profile and maxMessages it returns a string
C7_FormatNeverRaises == fmtOut.done => ~fmtOut.raised

-----------------------------------------------------------------------------
(* Claims about the request handlers, checked under Spec *)

Responded == pc = "responded"
Analyzed == Responded /\ req.endpoint = "/analyze"
Count(ev, e) == Cardinality({i \in 1..Len(ev) : ev[i] = e})

\* the body is JSON and carries no chatHistory, or an empty one
HistoryMissingOrEmpty(body) ==
    \/ body.kind = "falsy"
    \/ /\ body.kind = "object"
       /\ \/ body.chatHistory.t = "missing"
          \/ body.chatHistory.t = "list" /\ body.chatHistory.v = <<>>

C2_MalformedJsonIs400 ==
    (Analyzed /\ req.body.kind = "malformed") =>
        resp.code = 400 /\ adapterLog = <<>> /\ Count(events, "llm") = 0

\* the upstream calls made for the request
UpstreamCalls == Flatten([i \in 1..Len(adapterLog) |-> adapterLog[i].calls])

QuotaPhrases ==
    Range(DeepseekKindText("QuotaExceeded")) \cup Range(KindSuffix("QuotaExceeded"))

\* C3: when the LLM call made for /analyze raises an exception whose
\* message contains "insufficient_quota", the response has status "error"
\* and its analysis_text contains a quota-specific phrase
C3_QuotaErrorSurfaced ==
    (Analyzed /\ \E i \in 1..Len(UpstreamCalls) :
                    /\ UpstreamCalls[i].raised
                    /\ HasKeyword(UpstreamCalls[i].exc, "insufficient_quota")) =>
        /\ resp.status = "error"
        /\ Range(resp.analysis_text) \cap QuotaPhrases # {}

\* C4: for a non-empty chat history, with the client configured, when the
\* upstream call returns a non-empty text, /analyze answers 200 with status
\* "success" and a non-empty analysis_text that contains the returned text
C4_CompletionReturnedAsSuccess ==
    \A i \in 1..Len(UpstreamCalls) :
        (/\ Analyzed /\ client
         /\ ~UpstreamCalls[i].raised /\ ~UpstreamCalls[i].isnone
         /\ UpstreamCalls[i].text # <<>>) =>
            /\ resp.code = 200
            /\ resp.status = "success"
            /\ resp.analysis_text # <<>>
            /\ Contains(resp.analysis_text, Strip(UpstreamCalls[i].text))

\* C9: when the upstream completion is empty or whitespace only, /analyze
\* does not answer with status "success"
C9_EmptyCompletionIsFailure ==
    \A i \in 1..Len(UpstreamCalls) :
        (/\ Analyzed
         /\ ~UpstreamCalls[i].raised /\ ~UpstreamCalls[i].isnone
         /\ Strip(UpstreamCalls[i].text) = <<>>) =>
            resp.status # "success"

\* the fixed text of an adapter's message for kind k: all of it, except
\* that generate_deepseek_analysis appends the exception text
KindPrefix(entry, k) ==
    CASE entry.fn = "generate_deepseek_analysis" -> <<ErrorMarker, SP>> \o DeepseekKindText(k)
      [] entry.fn = "generate_ai_section" -> SectionErrorMessage(entry.arg, k)
      [] entry.fn = "generate_summary_analysis" -> SummaryErrorMessage(k)

KindMessage(entry, k) ==
    IF entry.fn = "generate_deepseek_analysis"
    THEN DeepseekErrorMessage(k, entry.calls[1].exc)
    ELSE KindPrefix(entry, k)

UpstreamRaised(entry) == entry.calls # <<>> /\ entry.calls[1].raised

\* C8 as claimed: the text an adapter returns for an upstream exception
\* starts with the message prefix of exactly one of the four kinds, and the
\* prefixes of the four kinds are pairwise distinct
C8_KindsHaveDistinctPrefixes ==
    \A i \in 1..Len(adapterLog) :
        UpstreamRaised(adapterLog[i]) =>
            /\ Cardinality({k \in ErrorKinds :
                              IsPrefix(KindPrefix(adapterLog[i], k), adapterLog[i].out)}) = 1
            /\ \A k1, k2 \in ErrorKinds :
                 k1 # k2 => KindPrefix(adapterLog[i], k1) # KindPrefix(adapterLog[i], k2)

\* C8 as amended: the text an adapter returns for an upstream exception is
\* the message of exactly one of the four kinds, and the messages of the
\* four kinds are pairwise distinct (they need not differ in a prefix)
C8_KindsHaveDistinctMessages ==
    \A i \in 1..Len(adapterLog) :
        UpstreamRaised(adapterLog[i]) =>
            /\ Cardinality({k \in ErrorKinds :
                              adapterLog[i].out = KindMessage(adapterLog[i], k)}) = 1
            /\ \A k1, k2 \in ErrorKinds :
                 k1 # k2 => KindMessage(adapterLog[i], k1) # KindMessage(adapterLog[i], k2)

C8_Witness ==
    /\ Responded
    /\ \E i \in 1..Len(adapterLog) :
         /\ adapterLog[i].fn = "generate_ai_section"
         /\ UpstreamRaised(adapterLog[i])
         /\ adapterLog[i].out = SectionErrorMessage(adapterLog[i].arg, "QuotaExceeded")

\* C10: an adapter invocation issues at most one upstream request and none
\* after one that failed, and one /analyze request causes at most one
\* upstream request
C10_SingleAttempt ==
    /\ \A i \in 1..Len(adapterLog) :
         /\ Len(adapterLog[i].calls) <= 1
         /\ \A j \in 1..(Len(adapterLog[i].calls) - 1) : ~AsRaised(adapterLog[i].calls[j]).raised
    /\ Analyzed => (Len(UpstreamCalls) <= 1 /\ Count(events, "llm") <= 1)
    /\ Count(events, "llm") = Len(UpstreamCalls)

C10_Witness ==
    /\ Analyzed
    /\ Len(adapterLog) = 1
    /\ UpstreamRaised(adapterLog[1])
    /\ resp.code = 200

-----------------------------------------------------------------------------
(* Claims about the email step and the responses, checked under Spec *)

CredSets == [sender : BOOLEAN, password : BOOLEAN, receiver : BOOLEAN]
AllSet == [sender |-> TRUE, password |-> TRUE, receiver |-> TRUE]

\* the outcomes of the email step: the mail is sent, the SMTP exchange
\* fails, the step is skipped because one of the credentials is missing
EmailCases ==
    {[cr |-> AllSet, smtpOk |-> TRUE], [cr |-> AllSet, smtpOk |-> FALSE]}
    \cup {[cr |-> [AllSet EXCEPT ![k] = FALSE], smtpOk |-> TRUE] :
             k \in {"sender", "password", "receiver"}}

\* the response the handler gives to request r with the outcomes e of the
\* upstream calls, the file system and the template, when the mail
\* credentials are cr and the SMTP exchange succeeds (smtpOk) or fails
ResponseWith(v, r, e, cl, cr, fs, n, ts, smtpOk) ==
    IF r.endpoint = "/generate-pdf"
    THEN generate_pdf(r.body, cl, cr, fs, ts, e.up, e.templateOk, e.writeOk, smtpOk).resp
    ELSE IF v = "standalone"
    THEN analyze_data(r.body, cl, cr, fs, n, ts, e.saveOk, e.up[1], e.pdfOk, smtpOk).resp
    ELSE analyze_chat(r.body, cl, fs, e.up[1]).resp

\* C11: the status code and the body of a /generate-pdf or /analyze
\* response do not depend on the email step: for the same request, in the
\* same second, with the same upstream, file and template outcomes the
\* response is the one that was given, whether the mail is sent, fails with
\* an SMTP error or is skipped for a missing credential
C11_ResponseIndependentOfEmail ==
    (Responded /\ req.endpoint \in {"/analyze", "/generate-pdf"}) =>
        \A c \in EmailCases :
           ResponseWith(variant, req, env, client, c.cr, files, nreq, now, c.smtpOk) = resp

C11_Witness ==
    /\ Responded /\ resp.code = 200
    /\ "smtp_failed" \in Range(events)

PdfRequested == Responded /\ req.endpoint = "/generate-pdf"

\* the three checks the handler starts with: the request is not declared as
\* JSON, the parsed body is empty, the chat history is absent, null or empty
ValidationFailure(body) ==
    \/ body.kind = "notjson"
    \/ body.kind = "falsy"
    \/ body.kind = "object" /\ (body.chatHistory.t # "list" \/ body.chatHistory.v = <<>>)

\* PDF generation returned a path: the PDF of this request was written
PdfGenerated == "write_pdf" \in Range(events) /\ env.writeOk

ExceptionTexts ==
    ExceptionMessages
    \cup {AsRaised(UpNone).exc, BadRequestMessage, NoKeysMessage, NoGetMessage,
          NoLenMessage, Title(JNull).exc,
          FormatMessage("app", NullContentHistory[1], JStr(<<"Ana">>)).exc}

\* C13: no response body contains the text of an underlying exception: for
\* upstream, rendering and unexpected failures the client gets a fixed
\* message
C13_NoExceptionTextInResponse ==
    Responded =>
        \A e \in ExceptionTexts :
            ~Contains(resp.analysis_text, e) /\ ~Contains(resp.error, e)

\* the temporary files written for the request that was just answered
FilesOfRequest == {f \in files : f = TxtFile(nreq) \/ f = resp.file}

\* C14: every temporary file created while a request is handled (the
\* transcript .txt, the generated PDF) has been deleted when the handling,
\* delivery included, has finished, whether it succeeded or failed
C14_TemporaryFilesDeleted == Responded => FilesOfRequest = {}

-----------------------------------------------------------------------------
(* Claims about the section parser, checked under ParseSpec *)

Parsed == parseOut.done

NoHeadingIn(text) == \A i \in 1..Len(SplitLines(text)) : ~IsHeading(SplitLines(text)[i])

\* C15: for every narrative text in which no line matches a recognised
\* heading, parse returns exactly one section, and the body of that section
\* is the entire input text
C15_ParserFallback ==
    (Parsed /\ NoHeadingIn(parseIn)) =>
        /\ Len(parseOut.val) = 1
        /\ parseOut.val[1].body = parseIn

C15_Witness ==
    /\ Parsed
    /\ parseIn = <<"Strengths", SP, "are many", NL, NL, "1.", SP, "first point">>
    /\ parseOut.val = <<[title |-> FallbackTitle, body |-> parseIn]>>

-----------------------------------------------------------------------------
(* Claims about the process state and the standalone /analyze *)

\* C16: request handling never writes the process-global client handle:
\* over every /analyze, /generate-pdf and /health request, failed upstream
\* calls included, client keeps the value it got at module start-up
C16_ClientNeverWritten == [][client' = client]_vars

C16_Witness ==
    /\ Responded /\ nreq = 2 /\ client
    /\ \E i \in 1..Len(adapterLog) : UpstreamRaised(adapterLog[i])

StandaloneAnalyzed == Analyzed /\ variant = "standalone"

\* the LLM analysis is unavailable: the client is not configured, or the
\* adapter returned an "Error generating AI analysis:" text
AnalysisUnavailable ==
    \/ ~client
    \/ \E i \in 1..Len(adapterLog) : ErrorMarker \in Range(adapterLog[i].out)

C18_ReturnedPdfExists ==
    (StandaloneAnalyzed /\ resp.file # NoFile) => resp.file \in files

\* the steps of the SMTP exchange of send_email_notification
SmtpSteps == {"smtp_send", "smtp_sent", "smtp_failed"}

\* C19: in the standalone /analyze the notification email is sent in the
\* background and does not block the response: the SMTP exchange is not
\* among the steps the handler completes before it returns the response
C19_EmailOffTheResponsePath ==
    StandaloneAnalyzed => Range(events) \cap SmtpSteps = {}

-----------------------------------------------------------------------------
(* Claims about the sections of the PDF report, checked under Spec *)

\* the request gets as far as the section loop: it passes the validation
\* and its transcript is formatted
SectionsReached(body) ==
    /\ body.kind = "object" /\ ~ValidationFailure(body)
    /\ ~format_conversation_to_text("app", body.chatHistory.v,
                                    Get(body.userName, <<"User">>),
                                    Get(body.profile, <<"unknown">>),
                                    AppDefaultMaxMessages).raised

\* C20: for one /generate-pdf request with a configured client that gets to
\* the section loop, generate_ai_section is invoked exactly once for each
\* of the five section keys, in the order executive_summary, best_tactics,
\* areas_to_change, automations, next_10_months_plan, each invocation
\* issuing its upstream request also after an earlier section failed; and
\* if any section failed no PDF is written, no email is sent and the answer
\* is 500
C20_FiveSectionsInOrder ==
    (PdfRequested /\ client /\ SectionsReached(req.body)) =>
        /\ Len(adapterLog) = Len(SectionKeys)
        /\ Len(SectionKeys) = 5
        /\ \A i \in 1..Len(adapterLog) :
              /\ adapterLog[i].fn = "generate_ai_section"
              /\ adapterLog[i].arg = SectionKeys[i]
              /\ Len(adapterLog[i].calls) = 1
        /\ (\E i \in 1..Len(adapterLog) : ~adapterLog[i].ok) =>
              /\ resp.code = 500
              /\ "write_pdf" \notin Range(events) /\ resp.file = NoFile
              /\ Range(events) \cap SmtpSteps = {}

C20_Witness ==
    /\ PdfRequested /\ client /\ EmailConfigured3(creds)
    /\ Len(adapterLog) = 5
    /\ ~adapterLog[1].ok /\ UpstreamRaised(adapterLog[1])
    /\ adapterLog[5].ok /\ adapterLog[5].arg = "next_10_months_plan"
    /\ resp.code = 500

\* every upstream call of the request returned a completion
AllCompletionsReturned ==
    /\ Len(adapterLog) = Len(SectionKeys)
    /\ \A i \in 1..Len(adapterLog) :
          /\ Len(adapterLog[i].calls) = 1
          /\ ~adapterLog[i].calls[1].raised /\ ~adapterLog[i].calls[1].isnone

\* C21: a report is rejected for its section content only when a section
\* was really not generated: with the client configured and all five
\* upstream calls returning, whatever text they return, no section is
\* flagged as an error and generation goes on to rendering (the PDF is
\* written when the template can be read)
C21_ReturnedSectionsNotFlagged ==
    (PdfRequested /\ client /\ SectionsReached(req.body) /\ AllCompletionsReturned) =>
        /\ \A i \in 1..Len(adapterLog) : ~SectionFlagged(adapterLog[i].out)
        /\ (env.templateOk /\ Get(req.body.userName, <<"User">>).t = "str") =>
              "write_pdf" \in Range(events)

-----------------------------------------------------------------------------
(* Further claims about format_conversation_to_text, checked under FmtSpec *)

\* the history the loop of the call runs over
TrimmedHistory == LimitHistory(fmtIn.history, fmtIn.max_messages)

\* the messages of a sample history differ from position to position, so a
\* position is kept twice exactly when a message occurs twice
NoPositionTwice(h) == \A i, j \in 1..Len(h) : i # j => h[i] # h[j]

\* C22: for every maxMessages >= 1 and every history longer than
\* maxMessages, the trimmed history has at most maxMessages messages and
\* holds no position of the original history twice
C22_WindowsWithinLimit ==
    (fmtOut.done /\ fmtIn.max_messages >= 1
       /\ Len(fmtIn.history) > fmtIn.max_messages) =>
        /\ Len(TrimmedHistory) <= fmtIn.max_messages
        /\ NoPositionTwice(TrimmedHistory)

\* C23: every message that survives the filter is rendered as exactly one
\* "{label}: {content}" line followed by one divider, for any sender value:
\* in every output the number of dividers equals the number of labelled
\* message lines, and both equal the number of surviving messages
C23_OneLinePerDivider ==
    Formatted =>
        /\ Count(fmtOut.val, Divider(fmtIn.variant))
             = Len(MessageLines(fmtIn.variant, fmtOut.val, fmtIn.user_name))
        /\ Len(MessageLines(fmtIn.variant, fmtOut.val, fmtIn.user_name))
             = Len(QualifyingLines(fmtIn.variant, TrimmedHistory))

-----------------------------------------------------------------------------
(* Claims about the paths of the generated PDFs *)

\* C24: two PDF generations that both succeed write to distinct paths: a
\* generation that succeeds never writes to the path of a PDF that an
\* earlier generation left there, whatever the user names and however close
\* in time the two requests are
C24_DistinctPdfPaths ==
    [][(pc' = "responded" /\ resp'.file # NoFile) => resp'.file \notin files]_vars

\* the components of a path: path.split("/")
RECURSIVE ComponentsFrom(_, _)
ComponentsFrom(path, cur) ==
    IF path = <<>> THEN <<cur>>
    ELSE IF Head(path) = "/" THEN <<cur>> \o ComponentsFrom(Tail(path), <<>>)
    ELSE ComponentsFrom(Tail(path), Append(cur, Head(path)))

Components(path) == ComponentsFrom(path, <<>>)

DotDot == <<".", ".">>

\* C25: for every userName the PDF is written directly inside the PDF
\* folder: the path has two components, the folder and the file name, so
\* the file name built from userName holds no path separator, and no
\* component of the path is ".."; in both variants
C25_PdfPathInsideFolder ==
    nameOut.done =>
        /\ Len(Components(nameOut.val)) = 2
        /\ \A i \in 1..Len(Components(nameOut.val)) : Components(nameOut.val)[i] # DotDot

\* the same for the app's generate_pdf_report_weasyprint alone
AppPathInsideFolder ==
    (nameOut.done /\ nameIn.variant = "app") =>
        /\ Len(Components(nameOut.val)) = 2
        /\ \A i \in 1..Len(Components(nameOut.val)) : Components(nameOut.val)[i] # DotDot

\* a path with a ".." component is built
DotDotPathBuilt ==
    nameOut.done /\ \E i \in 1..Len(Components(nameOut.val)) :
                       Components(nameOut.val)[i] = DotDot

-----------------------------------------------------------------------------
(* Claims about the app's /analyze response and about /health *)

AppAnalyzed == variant = "app" /\ Responded /\ req.endpoint = "/analyze"

\* C26: in the app, a response of /analyze that carries a status has status
\* "success" or "error" and pdf_ready true exactly when the status is
\* "success"; a 500 response of /analyze carries status "error" and
\* pdf_ready false
C26_StatusAndPdfReady ==
    AppAnalyzed =>
        /\ "status" \in resp.has =>
              /\ resp.status \in {"success", "error"}
              /\ "pdf_ready" \in resp.has
              /\ resp.pdf_ready <=> (resp.status = "success")
        /\ resp.code = 500 =>
              /\ {"status", "pdf_ready"} \subseteq resp.has
              /\ resp.status = "error" /\ ~resp.pdf_ready

\* the app answers 500 to a second request, an /analyze whose JSON object
\* made the handler raise
C26_Witness ==
    /\ AppAnalyzed /\ nreq = 2 /\ resp.code = 500 /\ resp.status = "error"
    /\ req.body.kind = "object"

\* the exceptions the upstream calls of the request raised inside the
\* adapters' try blocks
RaisedInAdapters ==
    UNION {{AsRaised(adapterLog[i].calls[j]).exc : j \in 1..Len(adapterLog[i].calls)} :
             i \in 1..Len(adapterLog)} \ {<<>>}

SameKind(e) ==
    /\ ClassifyDeepseek(e) = ClassifySection(e)
    /\ ClassifySection(e) = ClassifySummary(e)

\* C27: the three adapters classify an exception message alike: the message
\* of every exception that an adapter caught gets the same error kind from
\* generate_deepseek_analysis, generate_ai_section and
\* generate_summary_analysis
C27_AdaptersClassifyAlike ==
    Responded => \A e \in RaisedInAdapters : SameKind(e)

\* the same, for the messages with none of the keywords "limit" and "timed out"
ClassifyAlikeWithoutLimit ==
    Responded => \A e \in RaisedInAdapters :
                    (~HasKeyword(e, "limit") /\ ~HasKeyword(e, "timed out")) => SameKind(e)

HealthAnswered == Responded /\ req.endpoint = "/health"

\* send_email_notification of the variant goes on to SMTP instead of
\* returning for an incomplete configuration
AttemptsSend(v, cr) ==
    IF v = "standalone"
    THEN "smtp_send" \in Range(send_email_notification(cr, {}, NoFile, TRUE).events)
    ELSE "smtp_send" \in Range(app_send_email_notification(cr, TRUE).events)

\* each of the three variables is unset or set to a value
SetOrUnset(e) == \A k \in DOMAIN e : e[k] \in {"unset", "value"}

HealthAgreesForEmptySettings ==
    HealthAnswered => (resp.email_configured <=> AttemptsSend(variant, creds))

====
